---- MODULE Spec2Model ----
(***************************************************************************)
(* Model of the course service of gocourse_course: the persistence gateway *)
(* (internal/course/repository.go), the domain service                     *)
(* (internal/course/service.go and the older copy of it without the date   *)
(* order checks), and the endpoint layer.                                  *)
(*                                                                         *)
(* Representation.                                                         *)
(*  - A string is a sequence of one-character strings; <<>> is "".         *)
(*  - A date string is the sequence of its "-"-separated numeric fields:   *)
(*    <<2024, 2, 1>> is "2024-02-01", <<>> is "", <<2024, 2, 30>> is       *)
(*    "2024-02-30".  Fields are taken to be zero padded to the widths of   *)
(*    the layout "2006-01-02".                                             *)
(*  - A time.Time is the integer yyyymmdd of its calendar day (UTC         *)
(*    midnight), so After/Before are > and <.                              *)
(*  - A pointer argument (to a string or a time.Time) is a sequence of     *)
(*    length at most one: <<>> is nil, <<v>> points to v.                  *)
(*  - A course id is a positive integer; 0 is the empty id "".             *)
(*  - The table is a function from the ids of its rows to the rows.        *)
(***************************************************************************)
EXTENDS Integers, Sequences, FiniteSets, TLC

VARIABLES store, nextID, last, updating

vars == <<store, nextID, last, updating>>

\* Number of rows the store ever creates (ids 1..MaxCourses).
MaxCourses == 2

(***************************************************************************)
(* Inputs                                                                  *)
(***************************************************************************)
\* Ids a caller of the service may name: every id the store can hold,
\* present or not.  The empty id never reaches the service: the decoders
\* and the controllers reject it.
IDs == 1..MaxCourses

Names == { <<>>, <<"G", "o">>, <<"g", "o", "2">> }

GoodDates == { <<2024, 1, 31>>, <<2024, 2, 1>> }
BadDates == { <<>>, <<2024, 2, 30>> }
DateStrings == GoodDates \cup BadDates

Nil == <<>>
Ptr(v) == <<v>>
Deref(p) == p[1]
OptOf(S) == {Nil} \cup {Ptr(v) : v \in S}

(***************************************************************************)
(* Errors (error.go)                                                       *)
(***************************************************************************)
NoErr == [kind |-> "nil", id |-> 0, cause |-> "nil"]

\* A failure reported by the storage engine itself (result.Error).
DBError == [kind |-> "db error", id |-> 0, cause |-> "nil"]

\* The *time.ParseError of time.Parse.
ParseError == [kind |-> "ParseError", id |-> 0, cause |-> "nil"]

NewErrNotFound(courseID) ==
    [kind |-> "ErrNotFound", id |-> courseID, cause |-> "ErrNotFoundBase"]

\* fmt.Errorf("%w: %v", sentinel, err): unwraps to the sentinel only; the
\* cause is kept in the message.
Wrap(sentinel, err) == [kind |-> sentinel, id |-> 0, cause |-> err.kind]

\* A test that recognises no error as not-found.
IsNotFound_Never(err) == FALSE

\* errors.As(err, &notFoundErr) || errors.Is(err, ErrNotFoundBase)
IsNotFound(err) == err.kind = "ErrNotFound" \/ err.kind = "ErrNotFoundBase"

(***************************************************************************)
(* time.Parse("2006-01-02", s), Time.After, Time.Before                    *)
(***************************************************************************)
IsLeap(y) == (y % 4 = 0 /\ y % 100 # 0) \/ y % 400 = 0

DaysIn(y, m) ==
    IF m = 2 THEN (IF IsLeap(y) THEN 29 ELSE 28)
    ELSE IF m \in {4, 6, 9, 11} THEN 30 ELSE 31

WellFormed(s) ==
    /\ Len(s) = 3
    /\ s[1] \in 0..9999
    /\ s[2] \in 1..12
    /\ s[3] \in 1..DaysIn(s[1], s[2])

\* A parse that checks the shape of the string but not the calendar.
time_Parse_Lenient(s) ==
    IF Len(s) = 3
    THEN [err |-> NoErr, t |-> s[1] * 10000 + s[2] * 100 + s[3]]
    ELSE [err |-> ParseError, t |-> 0]

\* [err, t]: the parsed day, or the parse error with the zero time.
time_Parse(s) ==
    IF WellFormed(s)
    THEN [err |-> NoErr, t |-> s[1] * 10000 + s[2] * 100 + s[3]]
    ELSE [err |-> ParseError, t |-> 0]

After(t, u) == t > u
Before(t, u) == t < u

\* A date order check that also rejects equal dates.
StartAfterEnd_OrEqual(start, end) == start >= end

\* The date order checks of the service: startDateParsed.After(endDateParsed)
\* and currentEndDate.Before(currentStartDate).
StartAfterEnd(start, end) == After(start, end)
EndBeforeStart(end, start) == Before(end, start)

(***************************************************************************)
(* Persistence gateway (repository.go).  db is the outcome of the          *)
(* statement the call issues: "ok", or "error" when the engine fails.      *)
(***************************************************************************)
NoCourse == [id |-> 0, name |-> <<>>, start_date |-> 0, end_date |-> 0,
             created_at |-> 0]

Remove(st, id) == [i \in DOMAIN st \ {id} |-> st[i]]

\* The latest creation time in the table.
RECURSIVE LatestCreatedAt(_)
LatestCreatedAt(st) ==
    IF DOMAIN st = {} THEN 0
    ELSE LET i == CHOOSE j \in DOMAIN st : TRUE
             rest == LatestCreatedAt(Remove(st, i))
         IN IF st[i].created_at > rest THEN st[i].created_at ELSE rest

\* The id is generated by the store and the creation time is the reading
\* of the clock at the insert.  The clock reading is a new instant
\* (numbered as the id), or, db = "sametime", the instant of the latest
\* row of the table: the clock has not advanced since that insert.
repo_Create(st, nid, course, db) ==
    IF db = "error"
    THEN [err |-> DBError, store |-> st, course |-> course]
    ELSE LET now == IF db = "sametime" /\ DOMAIN st # {}
                    THEN LatestCreatedAt(st) ELSE nid
             row == [course EXCEPT !.id = nid, !.created_at = now]
         IN [err |-> NoErr, store |-> (nid :> row) @@ st, course |-> row]

\* Outcomes the insert of repo.Create can have on the table st.
CreateOutcomes(st) ==
    IF DOMAIN st = {} THEN {"ok", "error"} ELSE {"ok", "error", "sametime"}

repo_Get(st, id, db) ==
    IF db = "error" THEN [err |-> DBError, course |-> NoCourse]
    ELSE IF id \notin DOMAIN st
    THEN [err |-> NewErrNotFound(id), course |-> NoCourse]
    ELSE [err |-> NoErr, course |-> st[id]]

repo_Delete(st, id, db) ==
    IF db = "error" THEN [err |-> DBError, store |-> st]
    ELSE IF id \notin DOMAIN st
    THEN [err |-> NewErrNotFound(id), store |-> st]
    ELSE [err |-> NoErr, store |-> Remove(st, id)]

\* A column set that takes every name that is present, empty or not.
Updates_AnyName(name, startDate, endDate) ==
    (IF name # Nil THEN {"name"} ELSE {})
    \cup (IF startDate # Nil THEN {"start_date"} ELSE {})
    \cup (IF endDate # Nil THEN {"end_date"} ELSE {})

\* The sparse column set of repo.Update.
Updates(name, startDate, endDate) ==
    (IF name # Nil /\ Deref(name) # <<>> THEN {"name"} ELSE {})
    \cup (IF startDate # Nil THEN {"start_date"} ELSE {})
    \cup (IF endDate # Nil THEN {"end_date"} ELSE {})

\* db = "skipped": the ORM issues no statement for an empty column set and
\* reports zero rows affected (a schema without an update timestamp).
repo_Update(st, id, name, startDate, endDate, db) ==
    LET updates == Updates(name, startDate, endDate)
        row == [st[id] EXCEPT
                  !.name = IF "name" \in updates THEN Deref(name) ELSE @,
                  !.start_date =
                      IF "start_date" \in updates THEN Deref(startDate) ELSE @,
                  !.end_date =
                      IF "end_date" \in updates THEN Deref(endDate) ELSE @]
    IN IF db = "error" THEN [err |-> DBError, store |-> st]
       ELSE IF id \notin DOMAIN st \/ (updates = {} /\ db = "skipped")
       THEN [err |-> NewErrNotFound(id), store |-> st]
       ELSE [err |-> NoErr, store |-> [st EXCEPT ![id] = row]]

\* Outcomes the statement of repo.Update can have for a column set.
UpdateOutcomes(name, startDate, endDate) ==
    IF Updates(name, startDate, endDate) = {}
    THEN {"ok", "error", "skipped"} ELSE {"ok", "error"}

DBOutcomes == {"ok", "error"}

(***************************************************************************)
(* Domain service (service.go).  db is the sequence of the outcomes of the *)
(* statements the call issues, in order.  A result is [err, store, calls,  *)
(* course]: calls lists the gateway methods invoked, in order.             *)
(* ErrStartDateAfterEndDate and ErrEndDateBeforeStartDate are used by      *)
(* service.go but not declared in error.go; they are sentinels like the    *)
(* others.                                                                 *)
(***************************************************************************)
service_Create(st, nid, name, startDate, endDate, db) ==
    LET startDateParsed == time_Parse(startDate)
        endDateParsed == time_Parse(endDate)
        course == [NoCourse EXCEPT !.name = name,
                                   !.start_date = startDateParsed.t,
                                   !.end_date = endDateParsed.t]
        r == repo_Create(st, nid, course, db[1])
    IN IF startDateParsed.err # NoErr
       THEN [err |-> Wrap("ErrInvalidStartDate", startDateParsed.err),
             store |-> st, calls |-> <<>>, course |-> NoCourse]
       ELSE IF endDateParsed.err # NoErr
       THEN [err |-> Wrap("ErrInvalidEndDate", endDateParsed.err),
             store |-> st, calls |-> <<>>, course |-> NoCourse]
       ELSE IF StartAfterEnd(startDateParsed.t, endDateParsed.t)
       THEN [err |-> [NoErr EXCEPT !.kind = "ErrStartDateAfterEndDate"],
             store |-> st, calls |-> <<>>, course |-> NoCourse]
       ELSE IF r.err # NoErr
       THEN [err |-> Wrap("ErrFailedToCreateCourse", r.err),
             store |-> r.store, calls |-> <<"Create">>, course |-> NoCourse]
       ELSE [err |-> NoErr, store |-> r.store, calls |-> <<"Create">>,
             course |-> r.course]

service_Get(st, id, db) ==
    LET r == repo_Get(st, id, db[1])
    IN IF r.err = NoErr
       THEN [err |-> NoErr, store |-> st, calls |-> <<"Get">>,
             course |-> r.course]
       ELSE IF IsNotFound(r.err)
       THEN [err |-> r.err, store |-> st, calls |-> <<"Get">>,
             course |-> NoCourse]
       ELSE [err |-> Wrap("ErrFailedToGetCourse", r.err), store |-> st,
             calls |-> <<"Get">>, course |-> NoCourse]

service_Delete(st, id, db) ==
    LET r == repo_Delete(st, id, db[1])
    IN IF r.err = NoErr
       THEN [err |-> NoErr, store |-> r.store, calls |-> <<"Delete">>,
             course |-> NoCourse]
       ELSE IF IsNotFound(r.err)
       THEN [err |-> r.err, store |-> r.store, calls |-> <<"Delete">>,
             course |-> NoCourse]
       ELSE [err |-> Wrap("ErrFailedToDeleteCourse", r.err),
             store |-> r.store, calls |-> <<"Delete">>, course |-> NoCourse]

\* service.Update up to the write: the read of the course, the parsing and
\* the date order checks on the pair read and supplied.  db is the outcome
\* of the statement of the read.
service_Update_read(st, id, startDate, endDate, db) ==
    LET got == service_Get(st, id, <<db>>)
        startP == IF startDate # Nil THEN time_Parse(Deref(startDate))
                  ELSE [err |-> NoErr, t |-> 0]
        endP == IF endDate # Nil THEN time_Parse(Deref(endDate))
                ELSE [err |-> NoErr, t |-> 0]
        startDateParsed == IF startDate # Nil THEN Ptr(startP.t) ELSE Nil
        endDateParsed == IF endDate # Nil THEN Ptr(endP.t) ELSE Nil
        currentStartDate == IF startDate # Nil THEN startP.t
                            ELSE got.course.start_date
        currentEndDate == IF endDate # Nil THEN endP.t
                          ELSE got.course.end_date
        fail(e) == [err |-> e, startDateParsed |-> Nil, endDateParsed |-> Nil]
    IN IF got.err # NoErr THEN fail(got.err)
       ELSE IF startP.err # NoErr
       THEN fail(Wrap("ErrInvalidStartDate", startP.err))
       ELSE IF endP.err # NoErr
       THEN fail(Wrap("ErrInvalidEndDate", endP.err))
       ELSE IF endDate # Nil /\ EndBeforeStart(currentEndDate, currentStartDate)
       THEN fail([NoErr EXCEPT !.kind = "ErrEndDateBeforeStartDate"])
       ELSE IF StartAfterEnd(currentStartDate, currentEndDate)
       THEN fail([NoErr EXCEPT !.kind = "ErrStartDateAfterEndDate"])
       ELSE [err |-> NoErr, startDateParsed |-> startDateParsed,
             endDateParsed |-> endDateParsed]

\* A write that wraps every error of the gateway.
service_Update_write_Wrapping(st, id, name, startDateParsed, endDateParsed, db) ==
    LET r == repo_Update(st, id, name, startDateParsed, endDateParsed, db)
    IN IF r.err = NoErr THEN r
       ELSE [err |-> Wrap("ErrFailedToUpdateCourse", r.err),
             store |-> r.store]

\* The write of service.Update on the table st as it is at the write, and
\* the error handed back.  db is the outcome of the statement.
service_Update_write(st, id, name, startDateParsed, endDateParsed, db) ==
    LET r == repo_Update(st, id, name, startDateParsed, endDateParsed, db)
    IN IF r.err = NoErr \/ IsNotFound(r.err) THEN r
       ELSE [err |-> Wrap("ErrFailedToUpdateCourse", r.err),
             store |-> r.store]

\* A call of service.Update that no other call interleaves with.
service_Update(st, id, name, startDate, endDate, db) ==
    LET read == service_Update_read(st, id, startDate, endDate, db[1])
        write == service_Update_write(st, id, name, read.startDateParsed,
                                      read.endDateParsed, db[2])
    IN IF read.err # NoErr
       THEN [err |-> read.err, store |-> st, calls |-> <<"Get">>,
             course |-> NoCourse]
       ELSE [err |-> write.err, store |-> write.store,
             calls |-> <<"Get", "Update">>, course |-> NoCourse]

(***************************************************************************)
(* The other copy of the domain service: no date order check, no read      *)
(* before the write, errors returned as they come.                         *)
(***************************************************************************)
variant_Create(st, nid, name, startDate, endDate, db) ==
    LET startDateParsed == time_Parse(startDate)
        endDateParsed == time_Parse(endDate)
        course == [NoCourse EXCEPT !.name = name,
                                   !.start_date = startDateParsed.t,
                                   !.end_date = endDateParsed.t]
        r == repo_Create(st, nid, course, db[1])
    IN IF startDateParsed.err # NoErr
       THEN [err |-> startDateParsed.err, store |-> st, calls |-> <<>>,
             course |-> NoCourse]
       ELSE IF endDateParsed.err # NoErr
       THEN [err |-> endDateParsed.err, store |-> st, calls |-> <<>>,
             course |-> NoCourse]
       ELSE IF r.err # NoErr
       THEN [err |-> r.err, store |-> r.store, calls |-> <<"Create">>,
             course |-> NoCourse]
       ELSE [err |-> NoErr, store |-> r.store, calls |-> <<"Create">>,
             course |-> r.course]

variant_Get(st, id, db) ==
    LET r == repo_Get(st, id, db[1])
    IN [err |-> r.err, store |-> st, calls |-> <<"Get">>,
        course |-> r.course]

variant_Delete(st, id, db) ==
    LET r == repo_Delete(st, id, db[1])
    IN [err |-> r.err, store |-> r.store, calls |-> <<"Delete">>,
        course |-> NoCourse]

variant_Update(st, id, name, startDate, endDate, db) ==
    LET startP == IF startDate # Nil THEN time_Parse(Deref(startDate))
                  ELSE [err |-> NoErr, t |-> 0]
        endP == IF endDate # Nil THEN time_Parse(Deref(endDate))
                ELSE [err |-> NoErr, t |-> 0]
        startDateParsed == IF startDate # Nil THEN Ptr(startP.t) ELSE Nil
        endDateParsed == IF endDate # Nil THEN Ptr(endP.t) ELSE Nil
        r == repo_Update(st, id, name, startDateParsed, endDateParsed, db[1])
    IN IF startP.err # NoErr
       THEN [err |-> startP.err, store |-> st, calls |-> <<>>,
             course |-> NoCourse]
       ELSE IF endP.err # NoErr
       THEN [err |-> endP.err, store |-> st, calls |-> <<>>,
             course |-> NoCourse]
       ELSE [err |-> r.err, store |-> r.store, calls |-> <<"Update">>,
             course |-> NoCourse]

(***************************************************************************)
(* Listing: applyFilters, repo.GetAll, repo.Count and the service calls    *)
(* that delegate to them.                                                  *)
(***************************************************************************)
Upper == <<"A", "B", "C", "D", "E", "F", "G", "H", "I", "J", "K", "L", "M",
           "N", "O", "P", "Q", "R", "S", "T", "U", "V", "W", "X", "Y", "Z">>
Lower == <<"a", "b", "c", "d", "e", "f", "g", "h", "i", "j", "k", "l", "m",
           "n", "o", "p", "q", "r", "s", "t", "u", "v", "w", "x", "y", "z">>

ToLowerChar(c) ==
    IF \E i \in DOMAIN Upper : Upper[i] = c
    THEN Lower[CHOOSE i \in DOMAIN Upper : Upper[i] = c] ELSE c

\* strings.ToLower, and LOWER() of the store, on the letters A-Z.
ToLower(s) == [i \in DOMAIN s |-> ToLowerChar(s[i])]

\* s LIKE %sub% (sub without wildcard characters).
Like(s, sub) ==
    \E k \in 0..(Len(s) - Len(sub)) :
        \A i \in 1..Len(sub) : s[k + i] = sub[i]

\* Ids of the rows applyFilters keeps.
applyFilters(st, filters) ==
    IF filters # <<>>
    THEN {i \in DOMAIN st : Like(ToLower(st[i].name), ToLower(filters))}
    ELSE DOMAIN st

\* ORDER BY created_at desc: the orders the engine may give to the rows of
\* st, as sequences of ids.  Rows of equal created_at come in any order,
\* which may differ from one statement to the next.
Orders(st) ==
    {q \in [1..Cardinality(DOMAIN st) -> DOMAIN st] :
       /\ \A i, j \in DOMAIN q : q[i] = q[j] => i = j
       /\ \A i, j \in DOMAIN q :
             i < j => st[q[i]].created_at >= st[q[j]].created_at}

\* The rows with the ids in S, in the order the engine gives to the rows
\* of st.
RECURSIVE OrderDesc(_, _, _)
OrderDesc(st, S, order) ==
    IF order = <<>> THEN <<>>
    ELSE (IF Head(order) \in S THEN <<st[Head(order)]>> ELSE <<>>)
         \o OrderDesc(st, S, Tail(order))

\* OFFSET is applied when positive; LIMIT when positive.  A limit of 0 is
\* LIMIT 0 in the current ORM and no limit in older releases of it
\* (db = "unlimited").
repo_GetAll(st, filters, offset, limit, db, order) ==
    LET rows == OrderDesc(st, applyFilters(st, filters), order)
        from == IF offset > 0 THEN offset + 1 ELSE 1
        to == IF limit > 0 \/ (limit = 0 /\ db # "unlimited")
              THEN from + limit - 1 ELSE Len(rows)
        last_ == IF to < Len(rows) THEN to ELSE Len(rows)
    IN IF db = "error" THEN [err |-> DBError, courses |-> <<>>]
       ELSE [err |-> NoErr, courses |-> SubSeq(rows, from, last_)]

GetAllOutcomes(limit) ==
    IF limit = 0 THEN {"ok", "error", "unlimited"} ELSE {"ok", "error"}

repo_Count(st, filters, db) ==
    IF db = "error" THEN [err |-> DBError, count |-> 0]
    ELSE [err |-> NoErr, count |-> Cardinality(applyFilters(st, filters))]

service_GetAll(st, filters, offset, limit, db, order) ==
    LET r == repo_GetAll(st, filters, offset, limit, db, order)
    IN IF r.err = NoErr \/ IsNotFound(r.err) THEN r
       ELSE [err |-> Wrap("ErrFailedToGetAllCourses", r.err),
             courses |-> <<>>]

service_Count(st, filters, db) ==
    LET r == repo_Count(st, filters, db)
    IN IF r.err = NoErr THEN r
       ELSE [err |-> Wrap("ErrFailedToCountCourses", r.err), count |-> 0]

variant_GetAll(st, filters, offset, limit, db, order) ==
    repo_GetAll(st, filters, offset, limit, db, order)

variant_Count(st, filters, db) == repo_Count(st, filters, db)

(***************************************************************************)
(* Pagination: strconv.Atoi and the metadata of meta.New                   *)
(***************************************************************************)
Digits == <<"0", "1", "2", "3", "4", "5", "6", "7", "8", "9">>

IsDigit(c) == \E i \in DOMAIN Digits : Digits[i] = c
DigitVal(c) == (CHOOSE i \in DOMAIN Digits : Digits[i] = c) - 1

RECURSIVE DigitsVal(_)
DigitsVal(s) ==
    IF s = <<>> THEN 0
    ELSE DigitsVal(SubSeq(s, 1, Len(s) - 1)) * 10 + DigitVal(s[Len(s)])

\* strconv.Atoi: an optional sign, then one or more decimal digits.
strconv_Atoi(s) ==
    LET signed == s # <<>> /\ s[1] \in {"-", "+"}
        body == IF signed THEN Tail(s) ELSE s
    IN IF body = <<>> \/ \E i \in DOMAIN body : ~IsDigit(body[i])
       THEN [err |-> [NoErr EXCEPT !.kind = "NumError"], n |-> 0]
       ELSE [err |-> NoErr,
             n |-> IF signed /\ s[1] = "-" THEN 0 - DigitsVal(body)
                   ELSE DigitsVal(body)]

NoMeta == [page |-> 0, limit |-> 0, total |-> 0, offset |-> 0,
           total_pages |-> 0]

\* ceil(total / limit) for limit > 0
CeilDiv(total, limit) == (total + limit - 1) \div limit

meta_New(page, limit, total, pagLimDef) ==
    LET def == strconv_Atoi(pagLimDef)
        l == IF limit > 0 THEN limit ELSE def.n
        p == IF page > 0 THEN page ELSE 1
    IN IF limit <= 0 /\ def.err # NoErr
       THEN [err |-> def.err, meta |-> NoMeta]
       ELSE [err |-> NoErr,
             meta |-> [page |-> p, limit |-> l, total |-> total,
                       offset |-> (p - 1) * l,
                       total_pages |-> IF l = 0 THEN 0 ELSE CeilDiv(total, l)]]

(***************************************************************************)
(* The Service interface: s names the implementation behind it,            *)
(* "service" for service.go and "variant" for the other copy.              *)
(***************************************************************************)
Service_Create(s, st, nid, name, startDate, endDate, db) ==
    IF s = "service"
    THEN service_Create(st, nid, name, startDate, endDate, db)
    ELSE variant_Create(st, nid, name, startDate, endDate, db)

Service_Get(s, st, id, db) ==
    IF s = "service" THEN service_Get(st, id, db)
    ELSE variant_Get(st, id, db)

Service_Delete(s, st, id, db) ==
    IF s = "service" THEN service_Delete(st, id, db)
    ELSE variant_Delete(st, id, db)

Service_Update(s, st, id, name, startDate, endDate, db) ==
    IF s = "service"
    THEN service_Update(st, id, name, startDate, endDate, db)
    ELSE variant_Update(st, id, name, startDate, endDate, db)

Service_GetAll(s, st, filters, offset, limit, db, order) ==
    IF s = "service"
    THEN service_GetAll(st, filters, offset, limit, db, order)
    ELSE variant_GetAll(st, filters, offset, limit, db, order)

Service_Count(s, st, filters, db) ==
    IF s = "service" THEN service_Count(st, filters, db)
    ELSE variant_Count(st, filters, db)

(***************************************************************************)
(* Endpoint layer.  Each controller takes the service s it closes over.    *)
(* A result is the response (status, msg) with the service's error, the    *)
(* store after the call, the gateway calls made (calls) and the service    *)
(* calls made (svc).                                                       *)
(***************************************************************************)
Msg(text, err) == [text |-> text, err |-> err]

Out(st) == [status |-> "none", msg |-> Msg("", NoErr), err |-> NoErr,
            store |-> st, calls |-> <<>>, svc |-> <<>>, course |-> NoCourse,
            meta |-> NoMeta, courses |-> <<>>,
            fetch |-> [offset |-> 0, limit |-> 0]]

BadRequest(st, text) ==
    [Out(st) EXCEPT !.status = "BadRequest", !.msg = Msg(text, NoErr)]

makeCreateEndpoint(s, st, nid, req, db) ==
    LET r == Service_Create(s, st, nid, req.name, req.start_date,
                            req.end_date, db)
        called == [Out(r.store) EXCEPT !.err = r.err, !.calls = r.calls,
                                       !.svc = <<"Create">>]
    IN IF req.type # "CreateReq"
       THEN BadRequest(st, "invalid request type")
       ELSE IF req.name = <<>>
       THEN BadRequest(st, "name is required")
       ELSE IF req.start_date = <<>> \/ req.end_date = <<>>
       THEN BadRequest(st, "start_date and end_date are required")
       ELSE IF r.err # NoErr
       THEN [called EXCEPT !.status = "InternalServerError",
                           !.msg = Msg("", r.err)]
       ELSE [called EXCEPT !.status = "Created",
                           !.msg = Msg("Course created successfully", NoErr),
                           !.course = r.course]

makeGetEndpoint(s, st, req, db) ==
    LET r == Service_Get(s, st, req.id, db)
        called == [Out(r.store) EXCEPT !.err = r.err, !.calls = r.calls,
                                       !.svc = <<"Get">>]
    IN IF req.type # "GetReq"
       THEN BadRequest(st, "invalid request type")
       ELSE IF req.id = 0
       THEN BadRequest(st, "id is required")
       ELSE IF r.err # NoErr
       THEN IF IsNotFound(r.err)
            THEN [called EXCEPT !.status = "NotFound", !.msg = Msg("", r.err)]
            ELSE [called EXCEPT !.status = "InternalServerError",
                                !.msg = Msg("", r.err)]
       ELSE [called EXCEPT !.status = "OK",
                           !.msg = Msg("Course retrieved successfully", NoErr),
                           !.course = r.course]

makeDeleteEndpoint(s, st, req, db) ==
    LET r == Service_Delete(s, st, req.id, db)
        called == [Out(r.store) EXCEPT !.err = r.err, !.calls = r.calls,
                                       !.svc = <<"Delete">>]
    IN IF req.type # "DeleteReq"
       THEN BadRequest(st, "invalid request type")
       ELSE IF req.id = 0
       THEN BadRequest(st, "id is required")
       ELSE IF r.err # NoErr
       THEN IF IsNotFound(r.err)
            THEN [called EXCEPT !.status = "NotFound", !.msg = Msg("", r.err)]
            ELSE [called EXCEPT !.status = "InternalServerError",
                                !.msg = Msg("", r.err)]
       ELSE [called EXCEPT !.status = "OK",
                           !.msg = Msg("Course deleted successfully", NoErr)]

\* The checks without the one that some field is present.
UpdateReqError_NoPresence(reqUpdate) ==
    IF reqUpdate.type # "UpdateReq" THEN "invalid request type"
    ELSE IF reqUpdate.id = 0 THEN "id is required"
    ELSE IF reqUpdate.name # Nil /\ Deref(reqUpdate.name) = <<>>
    THEN "name is required"
    ELSE IF reqUpdate.start_date # Nil /\ Deref(reqUpdate.start_date) = <<>>
    THEN "start_date and end_date are required"
    ELSE IF reqUpdate.end_date # Nil /\ Deref(reqUpdate.end_date) = <<>>
    THEN "start_date and end_date are required"
    ELSE ""

\* The message of the first check of the Update controller the request
\* fails, "" when it passes them all.
UpdateReqError(reqUpdate) ==
    IF reqUpdate.type # "UpdateReq" THEN "invalid request type"
    ELSE IF reqUpdate.id = 0 THEN "id is required"
    ELSE IF reqUpdate.name = Nil /\ reqUpdate.start_date = Nil
            /\ reqUpdate.end_date = Nil
    THEN "at least one field is required"
    ELSE IF reqUpdate.name # Nil /\ Deref(reqUpdate.name) = <<>>
    THEN "name is required"
    ELSE IF reqUpdate.start_date # Nil /\ Deref(reqUpdate.start_date) = <<>>
    THEN "start_date and end_date are required"
    ELSE IF reqUpdate.end_date # Nil /\ Deref(reqUpdate.end_date) = <<>>
    THEN "start_date and end_date are required"
    ELSE ""

makeUpdateEndpoint(s, st, reqUpdate, db) ==
    LET r == Service_Update(s, st, reqUpdate.id, reqUpdate.name,
                            reqUpdate.start_date, reqUpdate.end_date, db)
        called == [Out(r.store) EXCEPT !.err = r.err, !.calls = r.calls,
                                       !.svc = <<"Update">>]
    IN IF UpdateReqError(reqUpdate) # ""
       THEN BadRequest(st, UpdateReqError(reqUpdate))
       ELSE IF r.err # NoErr
       THEN IF IsNotFound(r.err)
            THEN [called EXCEPT !.status = "NotFound", !.msg = Msg("", r.err)]
            ELSE [called EXCEPT !.status = "InternalServerError",
                                !.msg = Msg("", r.err)]
       ELSE [called EXCEPT !.status = "OK",
                           !.msg = Msg("Course updated successfully", NoErr)]

\* A controller that does not look at the configured default.
DefaultLimitError_Unchecked(req, config) == FALSE

\* limit <= 0 and the configured default is no integer.
DefaultLimitError(req, config) ==
    req.limit <= 0 /\ strconv_Atoi(config).err # NoErr

\* The limit and the page the controller hands to meta.New.
RequestLimit(req, config) ==
    IF req.limit <= 0 THEN strconv_Atoi(config).n ELSE req.limit

RequestPage(req) == IF req.page <= 0 THEN 1 ELSE req.page

makeGetAllEndpoint(s, st, req, config, db, order) ==
    LET filters == req.name
        limit == RequestLimit(req, config)
        page == RequestPage(req)
        count == Service_Count(s, st, filters, db[1])
        metaData == meta_New(page, limit, count.count, config)
        courses == Service_GetAll(s, st, filters, metaData.meta.offset,
                                  metaData.meta.limit, db[2], order)
        internal(text, e, svc) ==
            [Out(st) EXCEPT !.status = "InternalServerError",
                            !.msg = Msg(text, e), !.err = e, !.svc = svc,
                            !.calls = svc]
    IN IF req.type # "GetAllReq"
       THEN BadRequest(st, "invalid request type")
       ELSE IF DefaultLimitError(req, config)
       THEN internal("invalid default limit configuration", NoErr, <<>>)
       ELSE IF count.err # NoErr
       THEN internal("error counting courses: ", count.err, <<"Count">>)
       ELSE IF metaData.err # NoErr
       THEN internal("error generating metadata: ", metaData.err,
                     <<"Count">>)
       ELSE IF courses.err # NoErr
       THEN [internal("error retrieving courses: ", courses.err,
                      <<"Count", "GetAll">>)
               EXCEPT !.fetch = [offset |-> metaData.meta.offset,
                                 limit |-> metaData.meta.limit]]
       ELSE [Out(st) EXCEPT
               !.status = "OK",
               !.msg = Msg("Courses retrieved successfully", NoErr),
               !.svc = <<"Count", "GetAll">>,
               !.calls = <<"Count", "GetAll">>,
               !.meta = metaData.meta,
               !.courses = courses.courses,
               !.fetch = [offset |-> metaData.meta.offset,
                          limit |-> metaData.meta.limit]]

(***************************************************************************)
(* Requests                                                                *)
(***************************************************************************)
\* Largest page and limit a listing request names.
MaxPage == 3
MaxLimit == 2

\* A request value of another type than the controller expects.
Mistyped == [type |-> "other"]

\* Ids a request may carry: 0 is the empty id.
ReqIDs == 0..MaxCourses

CreateReqs ==
    [type : {"CreateReq"}, name : Names, start_date : DateStrings,
     end_date : DateStrings]

UpdateReqs(ids) ==
    [type : {"UpdateReq"}, id : ids, name : OptOf(Names),
     start_date : OptOf(DateStrings), end_date : OptOf(DateStrings)]

GetReqs(ids) == [type : {"GetReq"}, id : ids]
DeleteReqs(ids) == [type : {"DeleteReq"}, id : ids]

Filters == { <<>>, <<"G", "O">>, <<"2">> }

GetAllReqs ==
    [type : {"GetAllReq"}, name : Filters, limit : -1..MaxLimit,
     page : 0..MaxPage]

\* The arguments of a call of GetAll on the service.
GetAllCalls ==
    [filters : Filters, offset : -1..MaxCourses, limit : -1..MaxLimit]

\* The first request of a listing read page by page.
PageReqs == [type : {"GetAllReq"}, name : Filters, limit : 0..MaxLimit,
             page : {1}]

\* Config.LimPageDef
Configs == { <<"x">>, <<"0">>, <<"2">> }

\* Statement outcomes of one call, in order.  A statement after a failed
\* one is not issued.
OnePlans == { <<o>> : o \in DBOutcomes }

CreatePlans(st) == { <<o>> : o \in CreateOutcomes(st) }

UpdatePlans(req) ==
    {<<"error">>}
    \cup { <<"ok", o>> :
             o \in UpdateOutcomes(req.name, req.start_date, req.end_date) }

VariantUpdatePlans(req) ==
    { <<o>> : o \in UpdateOutcomes(req.name, req.start_date, req.end_date) }

Service_UpdatePlans(s, req) ==
    IF s = "service" THEN UpdatePlans(req) ELSE VariantUpdatePlans(req)

GetAllPlans(req, config) ==
    {<<"error">>}
    \cup { <<"ok", o>> : o \in GetAllOutcomes(RequestLimit(req, config)) }

\* The callers of Update whose calls interleave.
Callers == {"a", "b"}

\* The calls made while calls of Update interleave.
ConcCreateReqs ==
    {r \in CreateReqs : /\ r.name = <<"G", "o">>
                        /\ r.start_date \in GoodDates
                        /\ r.end_date \in GoodDates}

ConcUpdateReqs ==
    {r \in UpdateReqs(IDs) : /\ r.name = Nil
                             /\ r.start_date \in OptOf(GoodDates)
                             /\ r.end_date \in OptOf(GoodDates)}

(***************************************************************************)
(* State: the table, the next id the store generates, and the call in     *)
(* progress (last): its request, statement outcomes, the table before it   *)
(* and its result, until the result has been handed back to the caller.    *)
(* Calls run to completion, one at a time.                                 *)
(***************************************************************************)
Idle == [layer |-> "none", op |-> "none", req |-> Mistyped,
         db |-> <<>>, before |-> <<>>, res |-> Out(<<>>)]

\* A caller of Update that has not called yet.
NotCalling ==
    [pc |-> "idle", id |-> 0, name |-> Nil, start_date |-> Nil,
     end_date |-> Nil, startDateParsed |-> Nil, endDateParsed |-> Nil,
     err |-> NoErr, db |-> <<>>, present |-> <<>>, order |-> 0]

Init ==
    /\ store = <<>>
    /\ nextID = 1
    /\ last = Idle
    /\ updating = [p \in Callers |-> NotCalling]

\* The call returns res: the table becomes res.store, and a created row
\* consumes an id.
Return(layer, op, req, db, res) ==
    /\ (res.store # store /\ op = "Create") => nextID <= MaxCourses
    /\ store' = res.store
    /\ nextID' = IF res.store # store /\ op = "Create"
                 THEN nextID + 1 ELSE nextID
    /\ last' = [layer |-> layer, op |-> op, req |-> req, db |-> db,
                before |-> store, res |-> res]
    /\ UNCHANGED updating

\* The result has been handed back: the next call may start.
Done ==
    /\ last # Idle
    /\ last' = Idle
    /\ UNCHANGED <<store, nextID, updating>>

(***************************************************************************)
(* Calls on the service s                                                  *)
(***************************************************************************)
CallCreate(s) ==
    /\ last = Idle
    /\ \E req \in CreateReqs, db \in OnePlans :
           \E res \in {Service_Create(s, store, nextID, req.name,
                                      req.start_date, req.end_date, db)} :
               Return("service", "Create", req, db, res)

CallGet(s) ==
    /\ last = Idle
    /\ \E req \in GetReqs(IDs), db \in OnePlans :
           \E res \in {Service_Get(s, store, req.id, db)} :
               Return("service", "Get", req, db, res)

CallDelete(s) ==
    /\ last = Idle
    /\ \E req \in DeleteReqs(IDs), db \in OnePlans :
           \E res \in {Service_Delete(s, store, req.id, db)} :
               Return("service", "Delete", req, db, res)

CallUpdate(s) ==
    /\ last = Idle
    /\ \E req \in UpdateReqs(IDs) :
           \E db \in Service_UpdatePlans(s, req) :
               \E res \in {Service_Update(s, store, req.id, req.name,
                                          req.start_date, req.end_date,
                                          db)} :
                   Return("service", "Update", req, db, res)

\* The result of GetAll with the fields of the other results.
CallGetAll(s) ==
    /\ last = Idle
    /\ \E req \in GetAllCalls, order \in Orders(store) :
           \E db \in { <<o>> : o \in GetAllOutcomes(req.limit) } :
               \E r \in {Service_GetAll(s, store, req.filters, req.offset,
                                         req.limit, db[1], order)} :
                   Return("service", "GetAll", req, db,
                          [err |-> r.err, store |-> store,
                           calls |-> <<"GetAll">>, course |-> NoCourse,
                           courses |-> r.courses])

(***************************************************************************)
(* Requests to the endpoints made over the service s                       *)
(***************************************************************************)
RequestCreate(s) ==
    /\ last = Idle
    /\ \E req \in CreateReqs \cup {Mistyped}, db \in OnePlans :
           \E res \in {makeCreateEndpoint(s, store, nextID, req, db)} :
               Return("endpoint", "Create", req, db, res)

RequestGet(s) ==
    /\ last = Idle
    /\ \E req \in GetReqs(ReqIDs) \cup {Mistyped}, db \in OnePlans :
           \E res \in {makeGetEndpoint(s, store, req, db)} :
               Return("endpoint", "Get", req, db, res)

RequestDelete(s) ==
    /\ last = Idle
    /\ \E req \in DeleteReqs(ReqIDs) \cup {Mistyped}, db \in OnePlans :
           \E res \in {makeDeleteEndpoint(s, store, req, db)} :
               Return("endpoint", "Delete", req, db, res)

RequestUpdate(s) ==
    /\ last = Idle
    /\ \E req \in UpdateReqs(ReqIDs) \cup {Mistyped} :
           \E db \in IF req = Mistyped THEN OnePlans
                     ELSE Service_UpdatePlans(s, req) :
               \E res \in {makeUpdateEndpoint(s, store, req, db)} :
                   Return("endpoint", "Update", req, db, res)

\* The configured default limit is part of the request's record (cfg).
RequestGetAll(s) ==
    /\ last = Idle
    /\ \E req \in GetAllReqs \cup {Mistyped}, config \in Configs :
           \E db \in IF req = Mistyped THEN OnePlans
                     ELSE GetAllPlans(req, config),
              order \in Orders(store) :
               \E res \in {makeGetAllEndpoint(s, store, req, config, db,
                                              order)} :
                   Return("endpoint", "GetAll", [cfg |-> config, r |-> req],
                          db, res)

\* The pages 1..total_pages of one listing, requested one after the other
\* while nothing is written; orders[k] is the order the engine gives to
\* the rows in the statement of page k.
FetchPages(s, st, req, config, orders) ==
    LET page(k) == makeGetAllEndpoint(s, st, [req EXCEPT !.page = k], config,
                                      <<"ok", "ok">>, orders[k])
        first == page(1)
        n == IF first.status = "OK" THEN first.meta.total_pages ELSE 0
    IN [status |-> first.status, store |-> st, meta |-> first.meta,
        pages |-> [k \in 1..n |-> page(k).courses]]

RequestPages(s) ==
    /\ last = Idle
    /\ \E req \in PageReqs, config \in Configs,
          orders \in [1..MaxCourses -> Orders(store)] :
           \E res \in {FetchPages(s, store, req, config, orders)} :
               Return("endpoint", "Pages", [cfg |-> config, r |-> req],
                      <<"ok", "ok">>, res)

(***************************************************************************)
(* The program with service.go                                             *)
(***************************************************************************)
SvcCreate == CallCreate("service")
SvcGet == CallGet("service")
SvcDelete == CallDelete("service")
SvcUpdate == CallUpdate("service")
EpCreate == RequestCreate("service")
EpGet == RequestGet("service")
EpDelete == RequestDelete("service")
EpUpdate == RequestUpdate("service")
EpGetAll == RequestGetAll("service")

Next ==
    \/ SvcCreate \/ SvcGet \/ SvcDelete \/ SvcUpdate
    \/ EpCreate \/ EpGet \/ EpDelete \/ EpUpdate \/ EpGetAll
    \/ Done

Spec == Init /\ [][Next]_vars

(***************************************************************************)
(* The program with the other copy of the service                          *)
(***************************************************************************)
VariantSvcCreate == CallCreate("variant")
VariantSvcGet == CallGet("variant")
VariantSvcDelete == CallDelete("variant")
VariantSvcUpdate == CallUpdate("variant")
VariantEpCreate == RequestCreate("variant")
VariantEpGet == RequestGet("variant")
VariantEpDelete == RequestDelete("variant")
VariantEpUpdate == RequestUpdate("variant")
VariantEpGetAll == RequestGetAll("variant")

VariantNext ==
    \/ VariantSvcCreate \/ VariantSvcGet \/ VariantSvcDelete
    \/ VariantSvcUpdate
    \/ VariantEpCreate \/ VariantEpGet \/ VariantEpDelete
    \/ VariantEpUpdate \/ VariantEpGetAll
    \/ Done

VariantSpec == Init /\ [][VariantNext]_vars

(***************************************************************************)
(* Listing: courses are created, some at the clock reading of the latest   *)
(* course, and deleted, and the listing is read by single calls of GetAll  *)
(* and page by page.                                                       *)
(***************************************************************************)
ListCreateReqs ==
    {r \in CreateReqs : /\ r.start_date = <<2024, 1, 31>>
                        /\ r.end_date = <<2024, 2, 1>>}

ListCreate ==
    /\ last = Idle
    /\ \E req \in ListCreateReqs, db \in CreatePlans(store) :
           \E res \in {service_Create(store, nextID, req.name, req.start_date,
                                      req.end_date, db)} :
               Return("service", "Create", req, db, res)

ListDelete == CallDelete("service")
ListGetAll == CallGetAll("service")
ListVariantGetAll == CallGetAll("variant")
ListPages == RequestPages("service")
ListVariantPages == RequestPages("variant")

ListNext ==
    \/ ListCreate \/ ListDelete \/ ListGetAll \/ ListVariantGetAll
    \/ ListPages \/ ListVariantPages \/ Done

ListSpec == Init /\ [][ListNext]_vars

(***************************************************************************)
(* service.go with calls that interleave: every statement sent to the      *)
(* store is one step.  Create and Delete send one statement; Update sends  *)
(* its read, and later, the checks passed, its write.  updating[p] is the  *)
(* call of Update of caller p: its arguments, the dates it parsed, the     *)
(* outcomes of its statements (db), whether the row was in the table at    *)
(* each statement and after the write (present), the position of its write *)
(* among the writes (order), and the error it returned.                    *)
(***************************************************************************)
ConcCreate ==
    /\ nextID <= MaxCourses
    /\ \E req \in ConcCreateReqs, db \in OnePlans :
           \E res \in {service_Create(store, nextID, req.name, req.start_date,
                                      req.end_date, db)} :
               /\ store' = res.store
               /\ nextID' = IF res.store # store THEN nextID + 1 ELSE nextID
    /\ UNCHANGED <<last, updating>>

ConcDelete ==
    /\ \E id \in IDs, db \in OnePlans :
           store' = service_Delete(store, id, db).store
    /\ UNCHANGED <<nextID, last, updating>>

\* service.go:121-163
UpdateRead(p) ==
    /\ updating[p].pc = "idle"
    /\ \E req \in ConcUpdateReqs, db \in DBOutcomes :
           \E r \in {service_Update_read(store, req.id, req.start_date,
                                         req.end_date, db)} :
               updating' =
                   [updating EXCEPT ![p] =
                      [pc |-> IF r.err = NoErr THEN "write" ELSE "done",
                       id |-> req.id, name |-> req.name,
                       start_date |-> req.start_date,
                       end_date |-> req.end_date,
                       startDateParsed |-> r.startDateParsed,
                       endDateParsed |-> r.endDateParsed,
                       err |-> r.err, db |-> <<db>>,
                       present |-> <<req.id \in DOMAIN store>>,
                       order |-> 0]]
    /\ UNCHANGED <<store, nextID, last>>

\* service.go:165-174
UpdateWrite(p) ==
    LET u == updating[p]
        writes == Cardinality({q \in Callers : updating[q].order > 0})
    IN /\ u.pc = "write"
       /\ \E db \in UpdateOutcomes(u.name, u.startDateParsed,
                                    u.endDateParsed) :
              \E w \in {service_Update_write(store, u.id, u.name,
                                             u.startDateParsed,
                                             u.endDateParsed, db)} :
                  /\ store' = w.store
                  /\ updating' =
                        [updating EXCEPT ![p] =
                           [u EXCEPT !.pc = "done", !.err = w.err,
                                     !.db = @ \o <<db>>,
                                     !.present = @ \o <<u.id \in DOMAIN store,
                                                        u.id \in DOMAIN w.store>>,
                                     !.order = writes + 1]]
       /\ UNCHANGED <<nextID, last>>

UpdateReadA == UpdateRead("a")
UpdateReadB == UpdateRead("b")
UpdateWriteA == UpdateWrite("a")
UpdateWriteB == UpdateWrite("b")

ConcNext ==
    \/ ConcCreate \/ ConcDelete
    \/ UpdateReadA \/ UpdateReadB \/ UpdateWriteA \/ UpdateWriteB

ConcSpec == Init /\ [][ConcNext]_vars

(***************************************************************************)
(* Properties                                                              *)
(***************************************************************************)
Svc(op) == last.layer = "service" /\ last.op = op
Ep(op) == last.layer = "endpoint" /\ last.op = op

\* The calendar day a well-formed date string names, as yyyymmdd.
DayOf(s) == s[1] * 10000 + s[2] * 100 + s[3]

\* The rows other than id are as they were before the call.
OthersUnchanged(id) ==
    /\ DOMAIN store \ {id} = DOMAIN last.before \ {id}
    /\ \A i \in DOMAIN store \ {id} : store[i] = last.before[i]

\* C1: every stored course has start_date <= end_date, whatever sequence
\* of service calls (Create, Update, Delete) produced the table.
C1_StoredDatesOrdered ==
    \A i \in DOMAIN store : store[i].start_date <= store[i].end_date

\* C2: a service Create with well-formed dates start > end returns the
\* date order error, does not call the gateway and leaves the table
\* unchanged.
C2_CreateRejectsStartAfterEnd ==
    (/\ Svc("Create")
     /\ WellFormed(last.req.start_date) /\ WellFormed(last.req.end_date)
     /\ DayOf(last.req.start_date) > DayOf(last.req.end_date))
    => /\ last.res.err.kind = "ErrStartDateAfterEndDate"
       /\ last.res.calls = <<>>
       /\ store = last.before

\* C3: a service Create with well-formed dates start <= end, the store
\* accepting the write, succeeds, adds exactly one row and returns the
\* entity with the supplied name and the parsed dates.
C3_CreateSucceeds ==
    (/\ Svc("Create")
     /\ WellFormed(last.req.start_date) /\ WellFormed(last.req.end_date)
     /\ DayOf(last.req.start_date) <= DayOf(last.req.end_date)
     /\ last.db[1] # "error")
    => /\ last.res.err = NoErr
       /\ last.res.calls = <<"Create">>
       /\ last.res.course.name = last.req.name
       /\ last.res.course.start_date = DayOf(last.req.start_date)
       /\ last.res.course.end_date = DayOf(last.req.end_date)
       /\ last.res.course.id \notin DOMAIN last.before
       /\ DOMAIN store = DOMAIN last.before \cup {last.res.course.id}
       /\ store[last.res.course.id] = last.res.course
       /\ OthersUnchanged(last.res.course.id)

\* A Create with equal dates succeeded while another course was stored.
C3_Witness ==
    /\ Svc("Create")
    /\ WellFormed(last.req.start_date)
    /\ last.req.start_date = last.req.end_date
    /\ last.req.name # <<>>
    /\ last.res.err = NoErr
    /\ Cardinality(DOMAIN store) = 2
    /\ Cardinality(DOMAIN last.before) = 1

\* No statement issued by the call failed in the storage engine.
DBWorks == \A i \in DOMAIN last.db : last.db[i] # "error"

\* The call wrote nothing: no gateway Create or Update, table unchanged.
NoWrite ==
    /\ \A i \in DOMAIN last.res.calls :
           last.res.calls[i] \notin {"Create", "Update"}
    /\ store = last.before

\* The date field of the call that is malformed first: "start_date",
\* "end_date", or "none".
Supplied(p) == p # Nil
MalformedField(start, end) ==
    IF Supplied(start) /\ ~WellFormed(Deref(start)) THEN "start_date"
    ELSE IF Supplied(end) /\ ~WellFormed(Deref(end)) THEN "end_date"
    ELSE "none"

LastMalformed ==
    IF last.op = "Create"
    THEN MalformedField(Ptr(last.req.start_date), Ptr(last.req.end_date))
    ELSE MalformedField(last.req.start_date, last.req.end_date)

FormatError(field) ==
    IF field = "start_date" THEN "ErrInvalidStartDate" ELSE "ErrInvalidEndDate"

\* C4 as stated: a service Create or Update with a malformed date string
\* fails with the date format error of the first malformed field and
\* writes nothing (the storage engine working).
C4_MalformedDateIsFormatError ==
    ((Svc("Create") \/ Svc("Update")) /\ DBWorks /\ LastMalformed # "none")
    => /\ last.res.err.kind = FormatError(LastMalformed)
       /\ NoWrite

\* C4 amended: a malformed date never leads to a write; Create fails with
\* the date format error of the first malformed field; so does Update when
\* its read of the course succeeds, and when the course does not exist
\* Update returns not-found for the id instead.
C4_MalformedDateNoWrite ==
    ((Svc("Create") \/ Svc("Update")) /\ LastMalformed # "none")
    => /\ NoWrite
       /\ last.res.err # NoErr
       /\ Svc("Create")
            => last.res.err.kind = FormatError(LastMalformed)
       /\ (Svc("Update") /\ DBWorks /\ last.req.id \in DOMAIN last.before)
            => last.res.err.kind = FormatError(LastMalformed)
       /\ (Svc("Update") /\ DBWorks /\ last.req.id \notin DOMAIN last.before)
            => last.res.err = NewErrNotFound(last.req.id)

\* An Update of a stored course with a well-formed start date and a
\* malformed end date returned the end date format error.
C4_Witness ==
    /\ Svc("Update") /\ DBWorks
    /\ last.req.id \in DOMAIN last.before
    /\ Supplied(last.req.start_date)
    /\ LastMalformed = "end_date"
    /\ last.res.err.kind = "ErrInvalidEndDate"

\* C5: for a stored course, an Update supplying only an end_date before
\* the stored start_date fails with end-before-start, one supplying only
\* a start_date after the stored end_date fails with start-after-end; the
\* table is unchanged and the gateway Update is not called.
C5_UpdateRejectsDisorder ==
    LET id == last.req.id
        start == last.req.start_date
        end == last.req.end_date
    IN (Svc("Update") /\ DBWorks /\ id \in DOMAIN last.before)
       => /\ (/\ start = Nil /\ Supplied(end) /\ WellFormed(Deref(end))
              /\ DayOf(Deref(end)) < last.before[id].start_date)
             => (last.res.err.kind = "ErrEndDateBeforeStartDate" /\ NoWrite)
          /\ (/\ end = Nil /\ Supplied(start) /\ WellFormed(Deref(start))
              /\ DayOf(Deref(start)) > last.before[id].end_date)
             => (last.res.err.kind = "ErrStartDateAfterEndDate" /\ NoWrite)

\* The row of the updated course after a successful Update, field by
\* field; nameSet tells whether the supplied name is written.
UpdateFrame(nameSet) ==
    LET id == last.req.id
        b == last.before[id]
        a == store[id]
    IN /\ id \in DOMAIN last.before /\ id \in DOMAIN store
       /\ a.name = IF nameSet THEN Deref(last.req.name) ELSE b.name
       /\ a.start_date = IF Supplied(last.req.start_date)
                         THEN DayOf(Deref(last.req.start_date))
                         ELSE b.start_date
       /\ a.end_date = IF Supplied(last.req.end_date)
                       THEN DayOf(Deref(last.req.end_date))
                       ELSE b.end_date
       /\ a.id = b.id /\ a.id = id
       /\ a.created_at = b.created_at
       /\ OthersUnchanged(id)

C7_UpdateEndpointValidates ==
    LET req == last.req
        absent == req.name = Nil /\ req.start_date = Nil /\ req.end_date = Nil
        empty == \/ req.name = Ptr(<<>>)
                 \/ req.start_date = Ptr(<<>>)
                 \/ req.end_date = Ptr(<<>>)
        untouched == /\ last.res.svc = <<>> /\ last.res.calls = <<>>
                     /\ store = last.before
    IN (Ep("Update") /\ req.type = "UpdateReq" /\ req.id # 0)
       => /\ absent
             => /\ last.res.status = "BadRequest"
                /\ last.res.msg = Msg("at least one field is required", NoErr)
                /\ untouched
          /\ empty => (last.res.status = "BadRequest" /\ untouched)

\* The endpoint rejected a request naming a stored course with no field
\* present.
C7_Witness ==
    /\ Ep("Update") /\ last.req.type = "UpdateReq"
    /\ last.req.id \in DOMAIN store
    /\ last.req.name = Nil /\ last.req.start_date = Nil
    /\ last.req.end_date = Nil
    /\ last.res.status = "BadRequest"

\* C8: Get, Update and Delete of an id that is not stored return the
\* not-found error carrying the id, at the gateway and unwrapped at the
\* service, the endpoints answer not-found with it, and the table is
\* unchanged (the storage engine working).
C8_MissingIdIsNotFound ==
    /\ \A id \in IDs \ DOMAIN store :
           /\ repo_Get(store, id, "ok").err = NewErrNotFound(id)
           /\ repo_Delete(store, id, "ok").err = NewErrNotFound(id)
           /\ \A name \in OptOf(Names) :
                  repo_Update(store, id, name, Nil, Ptr(20240201), "ok").err
                      = NewErrNotFound(id)
    /\ (/\ Svc("Get") \/ Svc("Update") \/ Svc("Delete")
        /\ DBWorks /\ last.req.id \notin DOMAIN last.before)
       => /\ last.res.err = NewErrNotFound(last.req.id)
          /\ store = last.before
    /\ (/\ Ep("Get") \/ Ep("Update") \/ Ep("Delete")
        /\ last.res.svc # <<>>
        /\ DBWorks /\ last.req.id \notin DOMAIN last.before)
       => /\ last.res.status = "NotFound"
          /\ last.res.msg = Msg("", NewErrNotFound(last.req.id))
          /\ last.res.err = NewErrNotFound(last.req.id)
          /\ store = last.before

\* The Update endpoint answered not-found for a deleted course while
\* another course was stored.
C8_Witness ==
    /\ Ep("Update") /\ last.res.status = "NotFound"
    /\ last.req.id < nextID
    /\ store # <<>>

\* The number of stored courses a listing request matches.
Matching(st, filters) ==
    Cardinality({i \in DOMAIN st :
                   filters = <<>> \/ Like(ToLower(st[i].name),
                                          ToLower(filters))})

\* The integer a default limit string encodes; -1 stands for a string that
\* is no integer.
DefaultOf(config) ==
    IF config = <<"0">> THEN 0 ELSE IF config = <<"2">> THEN 2 ELSE -1

\* C9: a listing request with limit <= 0 under a default limit that is no
\* integer is answered internal without a call to the service; otherwise
\* the endpoint calls Count, then GetAll with limit' (limit if > 0, else
\* the default) and offset (page' - 1) * limit' (page' = page if > 0, else
\* 1), and reports total T and total_pages ceil(T / limit'), 0 when limit'
\* is 0.  Total 95, limit 10, page 3 give offset 20 and 10 pages.
C9_Pagination ==
    LET req == last.req.r
        D == DefaultOf(last.req.cfg)
        l == IF req.limit > 0 THEN req.limit ELSE D
        p == IF req.page > 0 THEN req.page ELSE 1
        T == Matching(last.before, req.name)
    IN /\ (Ep("GetAll") /\ req.type = "GetAllReq")
          => /\ (req.limit <= 0 /\ D = -1)
                => /\ last.res.status = "InternalServerError"
                   /\ last.res.svc = <<>>
                   /\ last.res.calls = <<>>
             /\ (~(req.limit <= 0 /\ D = -1) /\ last.db[1] = "error")
                => /\ last.res.status = "InternalServerError"
                   /\ last.res.svc = <<"Count">>
             /\ (~(req.limit <= 0 /\ D = -1) /\ DBWorks)
                => /\ last.res.status = "OK"
                   /\ last.res.svc = <<"Count", "GetAll">>
                   /\ last.res.fetch = [offset |-> (p - 1) * l, limit |-> l]
                   /\ last.res.meta.total = T
                   /\ last.res.meta.limit = l
                   /\ last.res.meta.page = p
                   /\ last.res.meta.offset = (p - 1) * l
                   /\ l = 0 => last.res.meta.total_pages = 0
                   /\ l > 0 =>
                        /\ last.res.meta.total_pages * l >= T
                        /\ (last.res.meta.total_pages - 1) * l < T
                        /\ last.res.meta.total_pages >= 0
       /\ LET m == meta_New(3, 10, 95, <<"1", "0">>).meta
          IN m.offset = 20 /\ m.total_pages = 10

\* A listing of two matching courses, page 2 with the default limit, was
\* answered.
C9_Witness ==
    /\ Ep("GetAll") /\ last.req.r.type = "GetAllReq"
    /\ last.res.status = "OK"
    /\ last.req.r.limit <= 0 /\ last.req.r.page = 2
    /\ last.res.meta.total = 2 /\ last.res.meta.total_pages = 1
    /\ last.res.fetch.offset = 2

DateErrors ==
    {"ErrInvalidStartDate", "ErrInvalidEndDate", "ErrStartDateAfterEndDate",
     "ErrEndDateBeforeStartDate"}

\* C10: the Create and Update endpoints answer a date format or date order
\* error of the service with bad-request and the error's message, and only
\* other failures with internal.
C10_DateErrorsAreBadRequest ==
    (/\ Ep("Create") \/ Ep("Update")
     /\ last.res.svc # <<>>
     /\ last.res.err # NoErr)
    => IF last.res.err.kind \in DateErrors
       THEN /\ last.res.status = "BadRequest"
            /\ last.res.msg = Msg("", last.res.err)
       ELSE last.res.status \in {"InternalServerError", "NotFound"}

\* The stored courses a filter matches.
MatchingRows(st, filters) ==
    {st[i] : i \in {j \in DOMAIN st :
                      filters = <<>> \/ Like(ToLower(st[j].name),
                                             ToLower(filters))}}

\* rows is in the order newest first.
NewestFirst(rows) ==
    \A i, j \in DOMAIN rows :
       i < j => rows[i].created_at >= rows[j].created_at

\* The listings of the set R newest first: every row of R once.
Listings(R) ==
    {q \in [1..Cardinality(R) -> R] :
       /\ \A i, j \in DOMAIN q : q[i] = q[j] => i = j
       /\ NewestFirst(q)}

\* The elements of q at the positions [offset, offset + limit).
Positions(q, offset, limit) ==
    SubSeq(q, offset + 1,
           IF offset + limit < Len(q) THEN offset + limit ELSE Len(q))

RECURSIVE Flatten(_)
Flatten(pages) ==
    IF pages = <<>> THEN <<>>
    ELSE Flatten(SubSeq(pages, 1, Len(pages) - 1)) \o pages[Len(pages)]

\* The pages of the listing read last hold every matching course once.
EveryCourseOnce ==
    LET all == Flatten(last.res.pages)
        R == MatchingRows(last.before, last.req.r.name)
    IN /\ Len(all) = Cardinality(R)
       /\ {all[i] : i \in DOMAIN all} = R

\* C11: a GetAll with offset >= 0 and limit > 0 that the store answers
\* returns the positions [offset, offset + limit) of the matching courses
\* newest first, and the pages 1..total_pages of a listing (limit > 0)
\* requested one after the other on unchanged data are pairwise disjoint
\* and together hold every matching course exactly once.
C11_PagesPartitionListing ==
    /\ (Svc("GetAll") /\ DBWorks /\ last.req.offset >= 0
           /\ last.req.limit > 0)
       => /\ last.res.err = NoErr
          /\ \E q \in Listings(MatchingRows(last.before, last.req.filters)) :
                last.res.courses
                    = Positions(q, last.req.offset, last.req.limit)
    /\ (Ep("Pages") /\ last.res.status = "OK" /\ last.res.meta.limit > 0)
       => EveryCourseOnce

\* The matching courses of the listing read last have pairwise different
\* creation times.
DistinctTimes ==
    \A a, b \in MatchingRows(last.before, last.req.r.name) :
       a.created_at = b.created_at => a = b

\* The pages of a listing hold every matching course exactly once, in the
\* order newest first, when no two matching courses have the same creation
\* time.
PagesPartitionWhenTimesDiffer ==
    (Ep("Pages") /\ last.res.status = "OK" /\ last.res.meta.limit > 0
       /\ DistinctTimes)
    => /\ EveryCourseOnce
       /\ NewestFirst(Flatten(last.res.pages))

\* Two pages of one course each were read, and the two matching courses
\* have the same creation time.
PagesOfEqualTimes ==
    /\ Ep("Pages") /\ last.res.status = "OK" /\ last.res.meta.limit = 1
    /\ Len(last.res.pages) = 2
    /\ ~DistinctTimes

\* Callers p and q have both completed a call of Update on the same
\* course, both writes succeeded, and the course is still stored.
BothUpdated(p, q) ==
    /\ p # q
    /\ updating[p].pc = "done" /\ updating[q].pc = "done"
    /\ updating[p].id = updating[q].id
    /\ updating[p].order > 0 /\ updating[q].order > 0
    /\ updating[p].err = NoErr /\ updating[q].err = NoErr
    /\ updating[p].id \in DOMAIN store

\* The stored value of each date column is the one of the last write to
\* that column by p or q.
LastWritePerColumn(p, q) ==
    LET row == store[updating[p].id]
        later(a, b) == updating[a].order > updating[b].order
        wins(a, b, field) ==
            updating[a][field] # Nil
            /\ (updating[b][field] = Nil \/ later(a, b))
    IN /\ wins(p, q, "start_date")
          => row.start_date = DayOf(Deref(updating[p].start_date))
       /\ wins(p, q, "end_date")
          => row.end_date = DayOf(Deref(updating[p].end_date))

\* C12: after two calls of Update on the same existing course whose reads,
\* checks and writes interleave have both completed, the stored course
\* has start_date <= end_date and each date column holds the value of the
\* last write to that column.
C12_InterleavedUpdatesKeepOrder ==
    \A p, q \in Callers :
       BothUpdated(p, q)
       => /\ store[updating[p].id].start_date
               <= store[updating[p].id].end_date
          /\ LastWritePerColumn(p, q)

\* The column part of the above alone: the last write to a column wins.
LastWriteWins ==
    \A p, q \in Callers : BothUpdated(p, q) => LastWritePerColumn(p, q)

\* The course of id, absent from the table at a statement of Update that
\* the store answered, makes the call return err.
NotFoundUnchanged(err, id) ==
    /\ err.kind = "ErrNotFound"
    /\ err.id = id
    /\ err.kind # "ErrFailedToUpdateCourse"

\* C13: a call of Update whose read finds no course returns the not-found
\* error carrying the id; so does one whose course is deleted between its
\* read and its write, the write affecting no row; neither is wrapped as
\* failed-to-update, and the write does not create the course again.
C13_NotFoundPropagates ==
    \A p \in Callers :
       LET u == updating[p]
       IN /\ (u.pc = "done" /\ u.db = <<"ok">> /\ u.present = <<FALSE>>)
             => NotFoundUnchanged(u.err, u.id)
          /\ (u.pc = "done" /\ Len(u.db) = 2 /\ u.db[2] # "error"
                /\ ~u.present[2])
             => /\ NotFoundUnchanged(u.err, u.id)
                /\ ~u.present[3]
                /\ u.id \notin DOMAIN store

\* A call of Update read its course, the course was deleted, and the write
\* was then sent and answered.
C13_Witness ==
    \E p \in Callers :
       /\ updating[p].pc = "done"
       /\ updating[p].db = <<"ok", "ok">>
       /\ updating[p].present[1] /\ ~updating[p].present[2]


====
